---- MODULE Spec2Model ----
(***************************************************************************)
(* Execution-simulation core of MagicMissile: the Order lifecycle          *)
(* (src/orders/order.py), the OrderBook matching pass                      *)
(* (src/orders/order_book.py), the PortfolioManager ledger                 *)
(* (src/portfolio/manager.py), the PaperBroker latency/slippage layer      *)
(* (src/broker/paper.py) and the BacktestEngine replay loop                *)
(* (src/backtesting/engine.py).                                            *)
(*                                                                         *)
(* Units.  Timestamps and durations are integers (seconds).  Prices are    *)
(* integers that are multiples of PriceUnit, so that multiplying a price   *)
(* by (1 + slippage_pct) or (1 - slippage_pct), with slippage_pct a        *)
(* multiple of 1/PriceUnit, is exact.  Python's None is the integer None.  *)
(***************************************************************************)
EXTENDS Integers, Sequences, FiniteSets, TLC

\* ------------------------------------------------------------------ bounds
MaxTime == 1
MaxQty == 3
MaxCap == 2
MaxPrice == 2
PriceUnit == 10

None == 0 - 1

Symbols == {"A", "B"}
Sides == {"BUY", "SELL"}
OrderTypes == {"MARKET", "LIMIT", "STOP"}
Times == 0 .. MaxTime
Quantities == 1 .. MaxQty
Caps == {None} \cup (1 .. MaxCap)
Prices == {PriceUnit * k : k \in 1 .. MaxPrice}
CapArgs == {None, 1}
Commissions == {1}
Timeouts == {None, 0}
CreatedAts == {0, 1}

\* Creation time and timeout of an order; the creation time only matters to
\* an order that has a timeout.
OrderClocks ==
    {c \in [created_at : CreatedAts, timeout : Timeouts] :
        c.timeout = None => c.created_at = 0}

\* Bars offered to the matching pass: low <= close <= high.
Bars == {b \in [price : Prices, high : Prices, low : Prices] :
            b.low <= b.price /\ b.price <= b.high}

\* Bars that close at their low, under the top price: a flat quote at the top
\* price, and bars that fall from it.
TickBars ==
    {b \in Bars : b.high = PriceUnit * MaxPrice /\ b.low = b.price}

VARIABLES
    orders,            \* every Order object constructed so far; an order's id is its index
    max_qty_per_fill,  \* OrderBook._max_qty_per_fill
    book,              \* OrderBook._orders: symbol -> list of order ids
    history,           \* OrderBook.history
    commission,        \* the caller's flat per-fill commission
    cash,              \* PortfolioManager.cash
    positions,         \* PortfolioManager._positions: symbol -> Position (keys made on first fill)
    trade_history,     \* PortfolioManager.trade_history
    latency,           \* PaperBroker.latency
    slippage_pct,      \* PaperBroker.slippage_pct, in units of 1/PriceUnit
    delay_queue,       \* PaperBroker._delay_queue: list of <<ready_ts, order id>>
    fills,             \* PaperBroker.fills
    equity_curve,      \* PaperBroker._equity_curve, and the equity_curve list of
                       \* BacktestEngine.run: list of <<time, equity>>
    last_prices,       \* PaperBroker._last_prices: symbol -> price (keys made on first tick)
    data,              \* BacktestEngine.data: symbol -> series (timestamp -> bar)
    idx,               \* BacktestEngine.run: position in self.dates of the loop
    strategies,        \* BacktestEngine.strategies: for each strategy, the "symbol"
                       \* entry of its parameters (NoSymbol when it has none)
    last_call          \* the call that has just returned (name, arguments, return
                       \* value), until the caller takes the result; else Idle

bookVars == <<max_qty_per_fill, book, history>>
ledgerVars == <<cash, positions, trade_history>>
brokerVars == <<latency, slippage_pct, delay_queue, fills, equity_curve, last_prices>>
replayVars == <<data, idx, strategies>>
vars == <<orders, bookVars, commission, ledgerVars, brokerVars, replayVars, last_call>>

\* ------------------------------------------------------------- sequences
Min(a, b) == IF a <= b THEN a ELSE b
Max(a, b) == IF a >= b THEN a ELSE b
Last(s) == s[Len(s)]

RECURSIVE SumQty(_)
SumQty(fs) == IF fs = <<>> THEN 0 ELSE fs[1].quantity + SumQty(Tail(fs))

\* ------------------------------------------------------------ Order
\* Mutant of PostInitRejects: the side is not checked.
PostInitRejects_side_unchecked(side, order_type, quantity, limit_price, stop_price) ==
    \/ quantity <= 0
    \/ order_type = "LIMIT" /\ limit_price = None
    \/ order_type = "STOP" /\ stop_price = None

\* Order.__post_init__: the constructor raises on these inputs.
PostInitRejects(side, order_type, quantity, limit_price, stop_price) ==
    \/ quantity <= 0
    \/ order_type = "LIMIT" /\ limit_price = None
    \/ order_type = "STOP" /\ stop_price = None
    \/ side = "HOLD"

NewOrder(symbol, side, order_type, quantity, limit_price, stop_price, created_at, timeout) ==
    [symbol |-> symbol, side |-> side, order_type |-> order_type,
     quantity |-> quantity, limit_price |-> limit_price, stop_price |-> stop_price,
     created_at |-> created_at, timeout |-> timeout,
     filled_qty |-> 0, status |-> "PENDING", fills |-> <<>>]

remaining(o) == o.quantity - o.filled_qty

\* Mutant of is_open: every order that is not FILLED counts as open.
is_open_not_filled(o) == o.status # "FILLED"

is_open(o) == o.status \in {"PENDING", "PARTIALLY_FILLED"}

\* Mutant of _record_fill: filled_qty counts the fills, not their quantity.
record_fill_counts_fills(o, fill) ==
    LET filled == o.filled_qty + 1
    IN  [o EXCEPT !.fills = Append(o.fills, fill),
                  !.filled_qty = filled,
                  !.status = IF filled >= o.quantity THEN "FILLED"
                             ELSE "PARTIALLY_FILLED"]

record_fill(o, fill) ==
    LET filled == o.filled_qty + fill.quantity
    IN  [o EXCEPT !.fills = Append(o.fills, fill),
                  !.filled_qty = filled,
                  !.status = IF filled >= o.quantity THEN "FILLED"
                             ELSE "PARTIALLY_FILLED"]

\* Mutant of maybe_timeout: expires as soon as the timeout is reached (>=).
maybe_timeout_at_deadline(o, now) ==
    IF o.timeout = None \/ ~is_open(o) THEN o
    ELSE IF now - o.created_at >= o.timeout THEN [o EXCEPT !.status = "EXPIRED"]
    ELSE o

maybe_timeout(o, now) ==
    IF o.timeout = None \/ ~is_open(o) THEN o
    ELSE IF now - o.created_at > o.timeout THEN [o EXCEPT !.status = "EXPIRED"]
    ELSE o

cancel(o) == IF is_open(o) THEN [o EXCEPT !.status = "CANCELLED"] ELSE o

\* ------------------------------------------------------------ OrderBook
FillEvent(symbol, time, fill_type, quantity, price, comm) ==
    [symbol |-> symbol, time |-> time, fill_type |-> fill_type,
     quantity |-> quantity, price |-> price, commission |-> comm]

\* Mutant of fill_price: a LIMIT order fills at the worse of limit and close.
fill_price_worse_of_limit(o, price, high, low) ==
    IF o.order_type = "MARKET" THEN price
    ELSE IF o.order_type = "LIMIT" THEN
        IF o.side = "BUY" /\ low <= o.limit_price THEN Max(o.limit_price, price)
        ELSE IF o.side = "SELL" /\ high >= o.limit_price THEN Min(o.limit_price, price)
        ELSE None
    ELSE IF o.order_type = "STOP" THEN
        IF \/ o.side = "BUY" /\ high >= o.stop_price
           \/ o.side = "SELL" /\ low <= o.stop_price
        THEN price
        ELSE None
    ELSE None

\* Mutant of fill_price: a LIMIT order fills at its limit price, whatever the close.
fill_price_at_limit(o, price, high, low) ==
    IF o.order_type = "MARKET" THEN price
    ELSE IF o.order_type = "LIMIT" THEN
        IF o.side = "BUY" /\ low <= o.limit_price THEN o.limit_price
        ELSE IF o.side = "SELL" /\ high >= o.limit_price THEN o.limit_price
        ELSE None
    ELSE IF o.order_type = "STOP" THEN
        IF \/ o.side = "BUY" /\ high >= o.stop_price
           \/ o.side = "SELL" /\ low <= o.stop_price
        THEN price
        ELSE None
    ELSE None

\* Mutant of fill_price: a STOP order triggers on the close instead of the
\* bar's high (BUY) or low (SELL).
fill_price_stop_on_close(o, price, high, low) ==
    IF o.order_type = "MARKET" THEN price
    ELSE IF o.order_type = "LIMIT" THEN
        IF o.side = "BUY" /\ low <= o.limit_price THEN Min(o.limit_price, price)
        ELSE IF o.side = "SELL" /\ high >= o.limit_price THEN Max(o.limit_price, price)
        ELSE None
    ELSE IF o.order_type = "STOP" THEN
        IF \/ o.side = "BUY" /\ price >= o.stop_price
           \/ o.side = "SELL" /\ price <= o.stop_price
        THEN price
        ELSE None
    ELSE None

\* Mutant of fill_price: a MARKET order fills at the bar's high.
fill_price_market_at_high(o, price, high, low) ==
    IF o.order_type = "MARKET" THEN high
    ELSE IF o.order_type = "LIMIT" THEN
        IF o.side = "BUY" /\ low <= o.limit_price THEN Min(o.limit_price, price)
        ELSE IF o.side = "SELL" /\ high >= o.limit_price THEN Max(o.limit_price, price)
        ELSE None
    ELSE IF o.order_type = "STOP" THEN
        IF \/ o.side = "BUY" /\ high >= o.stop_price
           \/ o.side = "SELL" /\ low <= o.stop_price
        THEN price
        ELSE None
    ELSE None

\* The fill price process_bar determines for an open order on this bar, or
\* None when the order is not eligible (the `continue` branches).
fill_price(o, price, high, low) ==
    IF o.order_type = "MARKET" THEN price
    ELSE IF o.order_type = "LIMIT" THEN
        IF o.side = "BUY" /\ low <= o.limit_price THEN Min(o.limit_price, price)
        ELSE IF o.side = "SELL" /\ high >= o.limit_price THEN Max(o.limit_price, price)
        ELSE None
    ELSE IF o.order_type = "STOP" THEN
        IF \/ o.side = "BUY" /\ high >= o.stop_price
           \/ o.side = "SELL" /\ low <= o.stop_price
        THEN price
        ELSE None
    ELSE None

effective_cap(arg, default) == IF arg # None THEN arg ELSE default

\* Mutant of fill_qty: the cap is not limited to the remaining quantity.
fill_qty_no_min(o, cap) ==
    IF cap = None \/ o.filled_qty > 0 THEN remaining(o) ELSE cap

\* Mutant of fill_qty: the cap applies to every fill, not only the first.
fill_qty_always_capped(o, cap) ==
    IF cap = None THEN remaining(o) ELSE Min(remaining(o), cap)

\* Mutant of fill_qty: the cap is ignored.
fill_qty_uncapped(o, cap) == remaining(o)

fill_qty(o, cap) ==
    IF cap = None \/ o.filled_qty > 0 THEN remaining(o)
    ELSE Min(remaining(o), cap)

\* One iteration of process_bar's loop on order o: the order afterwards and
\* the fill it emitted (<<>> when none).
process_order(o, symbol, time, price, high, low, comm, cap) ==
    IF ~is_open(o) THEN [order |-> o, fills |-> <<>>]
    ELSE LET t == maybe_timeout(o, time)
         IN  IF ~is_open(t) THEN [order |-> t, fills |-> <<>>]
             ELSE LET fp == fill_price(t, price, high, low)
                  IN  IF fp = None THEN [order |-> t, fills |-> <<>>]
                      ELSE LET fill == FillEvent(symbol, time, t.side,
                                                 fill_qty(t, cap), fp, comm)
                           IN  [order |-> record_fill(t, fill), fills |-> <<fill>>]

\* Mutant of process_from: the fills are returned last visited first.
RECURSIVE process_from_last_first(_, _, _, _, _, _, _, _, _, _)
process_from_last_first(ords, ids, k, symbol, time, price, high, low, comm, cap) ==
    IF k > Len(ids) THEN [orders |-> ords, fills |-> <<>>, owners |-> <<>>]
    ELSE LET r == process_order(ords[ids[k]], symbol, time, price, high, low, comm, cap)
             rest == process_from_last_first([ords EXCEPT ![ids[k]] = r.order], ids, k + 1,
                                             symbol, time, price, high, low, comm, cap)
         IN  [orders |-> rest.orders,
              fills |-> rest.fills \o r.fills,
              owners |-> rest.owners \o (IF r.fills = <<>> THEN <<>> ELSE <<ids[k]>>)]

\* process_bar's loop over the ids of the symbol's list, from position k on:
\* the orders afterwards, the fills emitted and, for each fill, its order.
RECURSIVE process_from(_, _, _, _, _, _, _, _, _, _)
process_from(ords, ids, k, symbol, time, price, high, low, comm, cap) ==
    IF k > Len(ids) THEN [orders |-> ords, fills |-> <<>>, owners |-> <<>>]
    ELSE LET r == process_order(ords[ids[k]], symbol, time, price, high, low, comm, cap)
             rest == process_from([ords EXCEPT ![ids[k]] = r.order], ids, k + 1,
                                  symbol, time, price, high, low, comm, cap)
         IN  [orders |-> rest.orders,
              fills |-> r.fills \o rest.fills,
              owners |-> (IF r.fills = <<>> THEN <<>> ELSE <<ids[k]>>) \o rest.owners]

\* Mutant of process_bar: the orders of every symbol are visited.
process_bar_every_symbol(ords, bk, default_cap, symbol, time, price, high, low, comm, cap_arg) ==
    process_from(ords, bk["A"] \o bk["B"], 1, symbol, time, price, high, low, comm,
                 effective_cap(cap_arg, default_cap))

process_bar(ords, bk, default_cap, symbol, time, price, high, low, comm, cap_arg) ==
    process_from(ords, bk[symbol], 1, symbol, time, price, high, low, comm,
                 effective_cap(cap_arg, default_cap))

\* cancel_order: the first open order with this id in the book is cancelled.
InBook(bk, id) == \E s \in Symbols : \E k \in 1 .. Len(bk[s]) : bk[s][k] = id

\* Mutant of cancel_order_hit: any order of the book counts, open or not.
cancel_order_hit_any_status(ords, bk, id) == InBook(bk, id)

cancel_order_hit(ords, bk, id) == InBook(bk, id) /\ is_open(ords[id])

cancel_order(ords, bk, id) ==
    IF cancel_order_hit(ords, bk, id) THEN [ords EXCEPT ![id] = cancel(ords[id])]
    ELSE ords

\* ------------------------------------------------------------ order book alone
Idle == [op |-> "idle"]

EmptyMap == [s \in {} |-> 0]

\* The order book used on its own: no ledger and no broker exist.
LedgerUnused == cash = 0 /\ positions = EmptyMap /\ trade_history = <<>>

BrokerUnused ==
    /\ latency = 0 /\ slippage_pct = 0 /\ delay_queue = <<>>
    /\ fills = <<>> /\ equity_curve = <<>> /\ last_prices = EmptyMap

\* No replay engine exists.
ReplayUnused ==
    data = [s \in Symbols |-> EmptyMap] /\ idx = 0 /\ strategies = <<>>

Init ==
    /\ orders = <<>>
    /\ max_qty_per_fill \in Caps
    /\ book = [s \in Symbols |-> <<>>]
    /\ history = <<>>
    /\ commission \in Commissions
    /\ last_call = Idle
    /\ LedgerUnused
    /\ BrokerUnused
    /\ ReplayUnused

\* Order(...) followed by OrderBook.add_order(order).
AddOrder(symbol, side, order_type, quantity, limit_price, stop_price, created_at, timeout) ==
    /\ last_call = Idle
    /\ ~PostInitRejects(side, order_type, quantity, limit_price, stop_price)
    /\ LET id == Len(orders) + 1
       IN  /\ orders' = Append(orders, NewOrder(symbol, side, order_type, quantity,
                                                limit_price, stop_price, created_at, timeout))
           /\ book' = [book EXCEPT ![symbol] = Append(@, id)]
           /\ history' = Append(history, id)
           /\ last_call' = [op |-> "add_order", id |-> id]
    /\ UNCHANGED <<max_qty_per_fill, commission, ledgerVars, brokerVars, replayVars>>

ProcessBar(symbol, time, bar, cap_arg) ==
    LET r == process_bar(orders, book, max_qty_per_fill, symbol, time,
                         bar.price, bar.high, bar.low, commission, cap_arg)
    IN  /\ last_call = Idle
        /\ orders' = r.orders
        /\ last_call' = [op |-> "process_bar", symbol |-> symbol, time |-> time,
                         price |-> bar.price, high |-> bar.high, low |-> bar.low,
                         cap_arg |-> cap_arg,
                         cap |-> effective_cap(cap_arg, max_qty_per_fill),
                         fills |-> r.fills, owners |-> r.owners]
        /\ UNCHANGED <<bookVars, commission, ledgerVars, brokerVars, replayVars>>

CancelOrder(id) ==
    /\ last_call = Idle
    /\ orders' = cancel_order(orders, book, id)
    /\ last_call' = [op |-> "cancel_order", id |-> id,
                     result |-> cancel_order_hit(orders, book, id)]
    /\ UNCHANGED <<bookVars, commission, ledgerVars, brokerVars, replayVars>>

\* The call returns: the caller has taken its result.
Return ==
    /\ last_call # Idle
    /\ last_call' = Idle
    /\ UNCHANGED <<orders, bookVars, commission, ledgerVars, brokerVars, replayVars>>

OrderPrices(order_type) ==
    IF order_type = "LIMIT" THEN {[limit |-> p, stop |-> None] : p \in Prices}
    ELSE IF order_type = "STOP" THEN {[limit |-> None, stop |-> p] : p \in Prices}
    ELSE {[limit |-> None, stop |-> None]}

\* Spec follows one order through the book: the body of process_bar's loop
\* reads and writes only the order it visits, so the orders of a book do not
\* affect one another.  The order is for symbol "A"; bars arrive for "A" and
\* for "B", a symbol the book holds nothing for.  cancel_order is called with
\* the ids of the orders made so far and with one id no order has.
Next ==
    \/ /\ last_call = Idle
       /\ orders = <<>>
       /\ \E side \in Sides, order_type \in OrderTypes, quantity \in Quantities,
             clock \in OrderClocks :
             \E p \in OrderPrices(order_type) :
                AddOrder("A", side, order_type, quantity, p.limit, p.stop,
                         clock.created_at, clock.timeout)
    \/ /\ last_call = Idle
       /\ \E symbol \in Symbols, time \in Times, bar \in Bars, cap_arg \in CapArgs :
             ProcessBar(symbol, time, bar, cap_arg)
    \/ /\ last_call = Idle
       /\ \E id \in 1 .. Len(orders) + 1 : CancelOrder(id)
    \/ Return

Spec == Init /\ [][Next]_vars

\* ------------------------------------------------------------ several orders in the book
MaxBookOrders == 2

\* Orders added to a book that holds several: a MARKET BUY, eligible on every
\* bar, and a LIMIT BUY at the lowest price, eligible when the low reaches it.
BookShapes ==
    {[side |-> "BUY", order_type |-> "MARKET", limit |-> None, stop |-> None],
     [side |-> "BUY", order_type |-> "LIMIT", limit |-> PriceUnit, stop |-> None]}

NextBook ==
    \/ /\ last_call = Idle
       /\ Len(orders) < MaxBookOrders
       /\ \E symbol \in Symbols, shape \in BookShapes, quantity \in {1, 2} :
             AddOrder(symbol, shape.side, shape.order_type, quantity,
                      shape.limit, shape.stop, 0, None)
    \/ /\ last_call = Idle
       /\ \E symbol \in Symbols, bar \in TickBars :
             ProcessBar(symbol, 0, bar, None)
    \/ /\ last_call = Idle
       /\ \E id \in 1 .. Len(orders) : CancelOrder(id)
    \/ Return

SpecBook == Init /\ [][NextBook]_vars

\* ------------------------------------------------------------ order construction
MaxConstructed == 2

\* Arguments offered to the Order constructor, valid and invalid.
ConstructSides == {"BUY", "SELL", "HOLD"}
ConstructQuantities == {0 - 1, 0, 1}
ConstructPrices == {None, PriceUnit}

\* Order(...) with any arguments: the constructor raises ValueError, or it
\* returns the order and the caller hands it to OrderBook.add_order.
ConstructOrder(symbol, side, order_type, quantity, limit_price, stop_price) ==
    LET args == [side |-> side, order_type |-> order_type, quantity |-> quantity,
                 limit_price |-> limit_price, stop_price |-> stop_price]
        id == Len(orders) + 1
    IN  /\ last_call = Idle
        /\ Len(orders) < MaxConstructed
        /\ IF PostInitRejects(side, order_type, quantity, limit_price, stop_price)
           THEN /\ UNCHANGED <<orders, book, history>>
                /\ last_call' = [op |-> "Order", args |-> args, raised |-> TRUE]
           ELSE /\ orders' = Append(orders, NewOrder(symbol, side, order_type, quantity,
                                                     limit_price, stop_price, 0, None))
                /\ book' = [book EXCEPT ![symbol] = Append(@, id)]
                /\ history' = Append(history, id)
                /\ last_call' = [op |-> "Order", args |-> args, raised |-> FALSE]
        /\ UNCHANGED <<max_qty_per_fill, commission, ledgerVars, brokerVars, replayVars>>

NextConstruct ==
    \/ /\ last_call = Idle
       /\ Len(orders) < MaxConstructed
       /\ \E side \in ConstructSides, order_type \in OrderTypes,
             quantity \in ConstructQuantities,
             limit_price \in ConstructPrices, stop_price \in ConstructPrices :
             ConstructOrder("A", side, order_type, quantity, limit_price, stop_price)
    \/ Return

SpecConstruct == Init /\ [][NextConstruct]_vars

\* ------------------------------------------------------------ PortfolioManager
Abs(x) == IF x < 0 THEN 0 - x ELSE x

RECURSIVE GCD(_, _)
GCD(a, b) == IF b = 0 THEN a ELSE GCD(b, a % b)

\* An average price is a fraction num/den in lowest terms (the float the code
\* keeps, without its rounding).
Frac(num, den) ==
    LET g == GCD(num, den) IN [num |-> num \div g, den |-> den \div g]

ZeroPrice == [num |-> 0, den |-> 1]

Position == [quantity |-> 0, avg_price |-> ZeroPrice]

PositionOf(pos, symbol) == IF symbol \in DOMAIN pos THEN pos[symbol] ELSE Position

\* Mutant of apply_fill: the commission is paid on SELL fills too.
apply_fill_commission_paid(L, fill) ==
    LET pos == PositionOf(L.positions, fill.symbol)
        direction == IF fill.fill_type = "BUY" THEN 1 ELSE 0 - 1
        new_qty == pos.quantity + direction * fill.quantity
        avg == IF new_qty = 0 THEN ZeroPrice
               ELSE Frac(pos.avg_price.num * Abs(pos.quantity)
                            + fill.price * fill.quantity * pos.avg_price.den,
                         pos.avg_price.den * Abs(new_qty))
        new_pos == [quantity |-> new_qty, avg_price |-> avg]
    IN  [cash |-> L.cash - direction * fill.price * fill.quantity - fill.commission,
         positions |-> [s \in DOMAIN L.positions \cup {fill.symbol} |->
                           IF s = fill.symbol THEN new_pos ELSE L.positions[s]],
         trade_history |-> Append(L.trade_history, fill)]

\* apply_fill on the ledger L = [cash, positions, trade_history].
apply_fill(L, fill) ==
    LET pos == PositionOf(L.positions, fill.symbol)
        direction == IF fill.fill_type = "BUY" THEN 1 ELSE 0 - 1
        new_qty == pos.quantity + direction * fill.quantity
        avg == IF new_qty = 0 THEN ZeroPrice
               ELSE Frac(pos.avg_price.num * Abs(pos.quantity)
                            + fill.price * fill.quantity * pos.avg_price.den,
                         pos.avg_price.den * Abs(new_qty))
        new_pos == [quantity |-> new_qty, avg_price |-> avg]
        trade_cost == fill.price * fill.quantity + fill.commission
    IN  [cash |-> L.cash - direction * trade_cost,
         positions |-> [s \in DOMAIN L.positions \cup {fill.symbol} |->
                           IF s = fill.symbol THEN new_pos ELSE L.positions[s]],
         trade_history |-> Append(L.trade_history, fill)]

RECURSIVE apply_fills(_, _)
apply_fills(L, fs) ==
    IF fs = <<>> THEN L ELSE apply_fills(apply_fill(L, fs[1]), Tail(fs))

\* Mutant of margin_used: the size of the cash balance, whatever its sign.
margin_used_abs(L) == Abs(L.cash)

margin_used(L) == Max(0 - L.cash, 0)

RECURSIVE SumOver(_, _, _)
SumOver(S, pos, prices) ==
    IF S = {} THEN 0
    ELSE LET s == CHOOSE x \in S : TRUE
         IN  pos[s].quantity * (IF s \in DOMAIN prices THEN prices[s] ELSE 0)
                + SumOver(S \ {s}, pos, prices)

\* Mutant of market_value: one position only is valued.
market_value_one_symbol(L, prices) ==
    IF DOMAIN L.positions = {} THEN 0
    ELSE LET s == CHOOSE x \in DOMAIN L.positions : TRUE
         IN  SumOver({s}, L.positions, prices)

market_value(L, prices) == SumOver(DOMAIN L.positions, L.positions, prices)

\* Mutant of total_equity: the positions are left out.
total_equity_cash_only(L, prices) == L.cash

total_equity(L, prices) == L.cash + market_value(L, prices)

Ledger == [cash |-> cash, positions |-> positions, trade_history |-> trade_history]

\* ------------------------------------------------------------ ledger alone
MaxFills == 2
MaxFillQty == 2
StartingCashes == {0, 50}

LedgerFills ==
    {FillEvent(s, 0, side, q, p, c) :
        s \in Symbols, side \in Sides, q \in 1 .. MaxFillQty, p \in Prices, c \in {0, 1}}

BookUnused ==
    /\ orders = <<>> /\ max_qty_per_fill = None
    /\ book = [s \in Symbols |-> <<>>] /\ history = <<>>

InitLedger ==
    /\ BookUnused
    /\ commission = 0
    /\ cash \in StartingCashes
    /\ positions = EmptyMap
    /\ trade_history = <<>>
    /\ BrokerUnused
    /\ ReplayUnused
    /\ last_call = Idle

ApplyFill(fill) ==
    /\ last_call = Idle
    /\ Len(trade_history) < MaxFills
    /\ LET L == apply_fill(Ledger, fill)
       IN  /\ cash' = L.cash
           /\ positions' = L.positions
           /\ trade_history' = L.trade_history
    /\ last_call' = [op |-> "apply_fill", fill |-> fill]
    /\ UNCHANGED <<orders, bookVars, commission, brokerVars, replayVars>>

NextLedger ==
    \/ \E fill \in LedgerFills : ApplyFill(fill)
    \/ Return

SpecLedger == InitLedger /\ [][NextLedger]_vars

\* ------------------------------------------------- the ledger's queries
\* A target weight is the fraction num/den.
Weights == {[num |-> 1, den |-> 2], [num |-> 1, den |-> 1]}

\* rebalance_to_target_weights: (target_dollars - current_dollars) // price,
\* a floor division, per target symbol; a missing price counts as 0 for the
\* current dollars and as 1 for the divisor.
rebalance_to_target_weights(L, target_weights, prices) ==
    LET equity == total_equity(L, prices)
        diff_qty(sym) ==
            LET w == target_weights[sym]
                current_qty == PositionOf(L.positions, sym).quantity
                current == current_qty * (IF sym \in DOMAIN prices THEN prices[sym] ELSE 0)
                divisor == IF sym \in DOMAIN prices THEN prices[sym] ELSE 1
            IN  (equity * w.num - current * w.den) \div (w.den * divisor)
    IN  [sym \in {t \in DOMAIN target_weights : diff_qty(t) # 0} |-> diff_qty(sym)]

\* save: the JSON document written, with its keys "cash", "positions"
\* (symbol -> "qty", "avg_price") and "trades".  json writes a number so that
\* reading it gives the same number back.
save(L) ==
    [cash |-> L.cash,
     positions |-> [sym \in DOMAIN L.positions |->
                       [qty |-> L.positions[sym].quantity,
                        avg_price |-> L.positions[sym].avg_price]],
     trades |-> L.trade_history]

\* Mutant of load: the cash of the fresh PortfolioManager() is kept.
load_default_cash(doc) ==
    [cash |-> 100000,
     positions |-> [sym \in DOMAIN doc.positions |->
                       [quantity |-> doc.positions[sym].qty,
                        avg_price |-> doc.positions[sym].avg_price]],
     trade_history |-> <<>>]

\* load: a fresh PortfolioManager() given the document's cash and positions;
\* the trades of the document are not read.
load(doc) ==
    [cash |-> doc.cash,
     positions |-> [sym \in DOMAIN doc.positions |->
                       [quantity |-> doc.positions[sym].qty,
                        avg_price |-> doc.positions[sym].avg_price]],
     trade_history |-> <<>>]

PriceMaps == UNION {[S -> Prices] : S \in SUBSET Symbols}

WeightMaps == UNION {[S -> Weights] : S \in SUBSET Symbols \ {{}}}

TotalEquity(prices) ==
    /\ last_call = Idle
    /\ last_call' = [op |-> "total_equity", prices |-> prices,
                     result |-> total_equity(Ledger, prices)]
    /\ UNCHANGED <<orders, bookVars, commission, ledgerVars, brokerVars, replayVars>>

MarginUsed ==
    /\ last_call = Idle
    /\ last_call' = [op |-> "margin_used", result |-> margin_used(Ledger)]
    /\ UNCHANGED <<orders, bookVars, commission, ledgerVars, brokerVars, replayVars>>

Rebalance(target_weights, prices) ==
    /\ last_call = Idle
    /\ last_call' = [op |-> "rebalance_to_target_weights",
                     target_weights |-> target_weights, prices |-> prices,
                     result |-> rebalance_to_target_weights(Ledger, target_weights, prices)]
    /\ UNCHANGED <<orders, bookVars, commission, ledgerVars, brokerVars, replayVars>>

\* The fills of the query runs: both symbols and sides, at the top price,
\* with a commission of 1.
QueryFills ==
    {FillEvent(s, 0, side, q, PriceUnit * MaxPrice, 1) :
        s \in Symbols, side \in Sides, q \in 1 .. MaxFillQty}

\* pm.save(path) followed by PortfolioManager.load(path).
SaveLoad ==
    /\ last_call = Idle
    /\ last_call' = [op |-> "load", doc |-> save(Ledger), result |-> load(save(Ledger))]
    /\ UNCHANGED <<orders, bookVars, commission, ledgerVars, brokerVars, replayVars>>

NextQuery ==
    \/ \E fill \in QueryFills : ApplyFill(fill)
    \/ SaveLoad
    \/ \E prices \in PriceMaps : TotalEquity(prices)
    \/ MarginUsed
    \/ \E target_weights \in WeightMaps, prices \in PriceMaps :
          Rebalance(target_weights, prices)
    \/ Return

SpecQuery == InitLedger /\ [][NextQuery]_vars

\* ------------------------------------------------------------ PaperBroker
\* The flush loop of on_price_tick: entries leave the head of the queue for
\* as long as the head's ready_ts is <= time.
RECURSIVE flush(_, _)
flush(queue, time) ==
    IF queue # <<>> /\ queue[1][1] <= time
    THEN LET r == flush(Tail(queue), time)
         IN  [queue |-> r.queue, ids |-> <<queue[1][2]>> \o r.ids]
    ELSE [queue |-> queue, ids |-> <<>>]

\* OrderBook.add_order for each flushed id in turn.
RECURSIVE add_orders(_, _, _)
add_orders(B, ords, ids) ==
    IF ids = <<>> THEN B
    ELSE add_orders([book |-> [B.book EXCEPT ![ords[ids[1]].symbol] = Append(@, ids[1])],
                     history |-> Append(B.history, ids[1])],
                    ords, Tail(ids))

\* Mutant of slip: a SELL price is scaled up like a BUY price.
slip_sell_up(fill, pct) ==
    IF pct = 0 THEN fill
    ELSE [fill EXCEPT !.price = (@ * (PriceUnit + pct)) \div PriceUnit]

\* The slippage step: a BUY price is scaled by 1 + slippage_pct, a SELL
\* price by 1 - slippage_pct; nothing is done when slippage_pct is zero.
slip(fill, pct) ==
    IF pct = 0 THEN fill
    ELSE IF fill.fill_type = "BUY"
         THEN [fill EXCEPT !.price = (@ * (PriceUnit + pct)) \div PriceUnit]
         ELSE [fill EXCEPT !.price = (@ * (PriceUnit - pct)) \div PriceUnit]

\* The slippage step writes the price into the FillEvent object itself, and
\* the same object is the last entry of its order's fills list.
RECURSIVE slip_in_orders(_, _, _)
slip_in_orders(ords, owners, adjusted) ==
    IF owners = <<>> THEN ords
    ELSE LET id == owners[1]
             n == Len(ords[id].fills)
         IN  slip_in_orders([ords EXCEPT ![id].fills[n] = adjusted[1]],
                            Tail(owners), Tail(adjusted))

QueuePosition(queue, id) ==
    IF \E k \in 1 .. Len(queue) : queue[k][2] = id
    THEN CHOOSE k \in 1 .. Len(queue) :
            queue[k][2] = id /\ \A j \in 1 .. k - 1 : queue[j][2] # id
    ELSE 0

\* Mutant of Remove: the entry stays in the queue.
Remove_nothing(queue, k) == queue

Remove(queue, k) == SubSeq(queue, 1, k - 1) \o SubSeq(queue, k + 1, Len(queue))

\* Mutant of pending_orders: the orders of the book are left out.
pending_orders_queue_only ==
    {delay_queue[k][2] : k \in 1 .. Len(delay_queue)}

\* pending_orders(): the queued orders, then the open orders of the book.
pending_orders ==
    {delay_queue[k][2] : k \in 1 .. Len(delay_queue)}
        \cup {id \in 1 .. Len(orders) : InBook(book, id) /\ is_open(orders[id])}

\* ------------------------------------------------------------ paper broker
MaxSubmits == 2
MaxTicks == 2
MaxLatency == 1
StartingCash == 100

\* Orders submitted to the broker: MARKET BUY and LIMIT SELL at the top price.
BrokerShapes ==
    {[side |-> "BUY", order_type |-> "MARKET", limit |-> None, stop |-> None],
     [side |-> "SELL", order_type |-> "LIMIT", limit |-> PriceUnit * MaxPrice, stop |-> None]}

InitBroker ==
    /\ orders = <<>>
    /\ max_qty_per_fill = None
    /\ book = [s \in Symbols |-> <<>>]
    /\ history = <<>>
    /\ commission \in Commissions
    /\ cash = StartingCash
    /\ positions = EmptyMap
    /\ trade_history = <<>>
    /\ latency \in 0 .. MaxLatency
    /\ slippage_pct = 1
    /\ delay_queue = <<>>
    /\ fills = <<>>
    /\ equity_curve = <<>>
    /\ last_prices = EmptyMap
    /\ ReplayUnused
    /\ last_call = Idle

\* Order(...) followed by PaperBroker.submit_order(order, now).
SubmitOrder(symbol, side, order_type, quantity, limit_price, stop_price, created_at, timeout, now) ==
    /\ last_call = Idle
    /\ Len(orders) < MaxSubmits
    /\ ~PostInitRejects(side, order_type, quantity, limit_price, stop_price)
    /\ LET id == Len(orders) + 1
           ready_ts == now + latency
       IN  /\ orders' = Append(orders, NewOrder(symbol, side, order_type, quantity,
                                                limit_price, stop_price, created_at, timeout))
           /\ delay_queue' = Append(delay_queue, <<ready_ts, id>>)
           /\ last_call' = [op |-> "submit_order", id |-> id, now |-> now,
                            ready_ts |-> ready_ts]
    /\ UNCHANGED <<bookVars, commission, ledgerVars, latency, slippage_pct,
                   fills, equity_curve, last_prices, replayVars>>

OnPriceTick(symbol, time, bar) ==
    LET fl == flush(delay_queue, time)
        B == add_orders([book |-> book, history |-> history], orders, fl.ids)
        r == process_bar(orders, B.book, max_qty_per_fill, symbol, time,
                         bar.price, bar.high, bar.low, commission, None)
        adjusted == [k \in 1 .. Len(r.fills) |-> slip(r.fills[k], slippage_pct)]
        L == apply_fills(Ledger, adjusted)
        prices == [s \in DOMAIN last_prices \cup {symbol} |->
                      IF s = symbol THEN bar.price ELSE last_prices[s]]
    IN  /\ last_call = Idle
        /\ Len(equity_curve) < MaxTicks
        /\ last_prices' = prices
        /\ delay_queue' = fl.queue
        /\ book' = B.book
        /\ history' = B.history
        /\ orders' = slip_in_orders(r.orders, r.owners, adjusted)
        /\ cash' = L.cash
        /\ positions' = L.positions
        /\ trade_history' = L.trade_history
        /\ fills' = fills \o adjusted
        /\ equity_curve' = Append(equity_curve, <<time, total_equity(L, prices)>>)
        /\ last_call' = [op |-> "on_price_tick", symbol |-> symbol, time |-> time,
                         price |-> bar.price, high |-> bar.high, low |-> bar.low,
                         fills |-> adjusted, owners |-> r.owners]
        /\ UNCHANGED <<max_qty_per_fill, commission, latency, slippage_pct, replayVars>>

\* PaperBroker.cancel_order: the queue first, then the book.
BrokerCancelOrder(id) ==
    LET k == QueuePosition(delay_queue, id)
    IN  /\ last_call = Idle
        /\ IF k > 0
           THEN /\ delay_queue' = Remove(delay_queue, k)
                /\ orders' = orders
                /\ last_call' = [op |-> "broker_cancel_order", id |-> id, result |-> TRUE]
           ELSE /\ delay_queue' = delay_queue
                /\ orders' = cancel_order(orders, book, id)
                /\ last_call' = [op |-> "broker_cancel_order", id |-> id,
                                 result |-> cancel_order_hit(orders, book, id)]
        /\ UNCHANGED <<bookVars, commission, ledgerVars, latency, slippage_pct,
                       fills, equity_curve, last_prices, replayVars>>

\* Mutant of Reset: the fills list is not cleared.
Reset_keeps_fills ==
    /\ last_call = Idle
    /\ delay_queue' = <<>>
    /\ book' = [s \in Symbols |-> <<>>]
    /\ history' = <<>>
    /\ cash' = cash + margin_used(Ledger)
    /\ positions' = EmptyMap
    /\ trade_history' = <<>>
    /\ fills' = fills
    /\ last_call' = [op |-> "reset"]
    /\ UNCHANGED <<orders, max_qty_per_fill, commission, latency, slippage_pct,
                   equity_curve, last_prices, replayVars>>

\* Mutant of Reset: the fresh ledger inherits the trade history.
Reset_keeps_trade_history ==
    /\ last_call = Idle
    /\ delay_queue' = <<>>
    /\ book' = [s \in Symbols |-> <<>>]
    /\ history' = <<>>
    /\ cash' = cash + margin_used(Ledger)
    /\ positions' = EmptyMap
    /\ trade_history' = trade_history
    /\ fills' = <<>>
    /\ last_call' = [op |-> "reset"]
    /\ UNCHANGED <<orders, max_qty_per_fill, commission, latency, slippage_pct,
                   equity_curve, last_prices, replayVars>>

Reset ==
    /\ last_call = Idle
    /\ delay_queue' = <<>>
    /\ book' = [s \in Symbols |-> <<>>]
    /\ history' = <<>>
    /\ cash' = cash + margin_used(Ledger)
    /\ positions' = EmptyMap
    /\ trade_history' = <<>>
    /\ fills' = <<>>
    /\ last_call' = [op |-> "reset"]
    /\ UNCHANGED <<orders, max_qty_per_fill, commission, latency, slippage_pct,
                   equity_curve, last_prices, replayVars>>

NextBroker ==
    \/ /\ last_call = Idle
       /\ Len(orders) < MaxSubmits
       /\ \E symbol \in Symbols, shape \in BrokerShapes, now \in Times :
             SubmitOrder(symbol, shape.side, shape.order_type, 1, shape.limit,
                         shape.stop, now, None, now)
    \/ /\ last_call = Idle
       /\ Len(equity_curve) < MaxTicks
       /\ \E symbol \in Symbols, time \in Times, bar \in TickBars :
             OnPriceTick(symbol, time, bar)
    \/ /\ last_call = Idle
       /\ \E id \in 1 .. Len(orders) + 1 : BrokerCancelOrder(id)
    \/ /\ last_call = Idle
       /\ history # <<>> \/ delay_queue # <<>>
       /\ Reset
    \/ Return

SpecBroker == InitBroker /\ [][NextBroker]_vars

\* ------------------------------------ a broker with a cap and both sides
\* PaperBroker(starting_cash, latency, slippage_pct=0, max_qty_per_fill)
\* trading MARKET orders of quantity 2, of both sides and for both symbols,
\* submitted at time 0, on flat quotes at the lowest price.
InitDesk ==
    /\ orders = <<>>
    /\ max_qty_per_fill \in CapArgs
    /\ book = [s \in Symbols |-> <<>>]
    /\ history = <<>>
    /\ commission \in Commissions
    /\ cash = StartingCash
    /\ positions = EmptyMap
    /\ trade_history = <<>>
    /\ latency \in 0 .. MaxLatency
    /\ slippage_pct = 0
    /\ delay_queue = <<>>
    /\ fills = <<>>
    /\ equity_curve = <<>>
    /\ last_prices = EmptyMap
    /\ ReplayUnused
    /\ last_call = Idle

FlatBar == [price |-> PriceUnit, high |-> PriceUnit, low |-> PriceUnit]

NextDesk ==
    \/ /\ last_call = Idle
       /\ Len(orders) < MaxSubmits
       /\ \E symbol \in Symbols, side \in Sides :
             SubmitOrder(symbol, side, "MARKET", 2, None, None, 0, None, 0)
    \/ /\ last_call = Idle
       /\ Len(equity_curve) < MaxTicks
       /\ \E symbol \in Symbols, time \in Times : OnPriceTick(symbol, time, FlatBar)
    \/ /\ last_call = Idle
       /\ \E id \in 1 .. Len(orders) : BrokerCancelOrder(id)
    \/ /\ last_call = Idle
       /\ history # <<>> \/ delay_queue # <<>>
       /\ Reset
    \/ Return

SpecDesk == InitDesk /\ [][NextDesk]_vars

\* ------------------------------------------ a broker whose orders time out
\* PaperBroker(starting_cash, latency) trading MARKET BUY orders of quantity
\* 1, with and without a timeout, each created at the moment it is
\* submitted.
NextTimeout ==
    \/ /\ last_call = Idle
       /\ Len(orders) < MaxSubmits
       /\ \E symbol \in Symbols, now \in Times, timeout \in Timeouts :
             SubmitOrder(symbol, "BUY", "MARKET", 1, None, None, now, timeout, now)
    \/ /\ last_call = Idle
       /\ Len(equity_curve) < MaxTicks
       /\ \E symbol \in Symbols, time \in Times : OnPriceTick(symbol, time, FlatBar)
    \/ /\ last_call = Idle
       /\ \E id \in 1 .. Len(orders) : BrokerCancelOrder(id)
    \/ Return

SpecTimeout == InitBroker /\ [][NextTimeout]_vars

\* ------------------------------------------- a broker that is reset
\* PaperBroker(starting_cash, latency, slippage_pct=0, max_qty_per_fill) with
\* little or no cash, trading MARKET BUY orders on "A" at the lowest price.
InitReset ==
    /\ orders = <<>>
    /\ max_qty_per_fill \in CapArgs
    /\ book = [s \in Symbols |-> <<>>]
    /\ history = <<>>
    /\ commission \in Commissions
    /\ cash \in StartingCashes
    /\ positions = EmptyMap
    /\ trade_history = <<>>
    /\ latency \in 0 .. MaxLatency
    /\ slippage_pct = 0
    /\ delay_queue = <<>>
    /\ fills = <<>>
    /\ equity_curve = <<>>
    /\ last_prices = EmptyMap
    /\ ReplayUnused
    /\ last_call = Idle

NextReset ==
    \/ /\ last_call = Idle
       /\ Len(orders) < MaxSubmits
       /\ \E quantity \in 1 .. 2 :
             SubmitOrder("A", "BUY", "MARKET", quantity, None, None, 0, None, 0)
    \/ /\ last_call = Idle
       /\ Len(equity_curve) < MaxTicks
       /\ \E time \in Times, bar \in {b \in TickBars : b.price = PriceUnit} :
             OnPriceTick("A", time, bar)
    \/ Reset
    \/ Return

SpecReset == InitReset /\ [][NextReset]_vars

\* ------------------------------------------------------------ BacktestEngine
\* The lot of every order the replay creates, and the default starting cash.
LotSize == 100
DefaultStartingCash == 100000

\* What strategy.generate_signals(df) holds for a symbol: no entry at all, or
\* a signal of one of the three types.
Signals == {"absent", "HOLD", "BUY", "SELL"}

\* self.symbols, the keys of data in their order.
SymbolList == <<"A", "B">>

\* required_syms: the strategy's own symbol, or every symbol of the data
\* when its parameters name none.
NoSymbol == "none"

required_syms(strat) == IF strat.symbol # NoSymbol THEN {strat.symbol} ELSE Symbols

\* The orders in which a loop over the set S may visit it.
RECURSIVE Orderings(_)
Orderings(S) ==
    IF S = {} THEN {<<>>}
    ELSE UNION {{<<x>> \o rest : rest \in Orderings(S \ {x})} : x \in S}

\* The close of a symbol at a timestamp, where it has a bar: the two symbols
\* alternate between two prices, out of step, so that a close differs from
\* the symbol's previous close and from the other symbol's close.
Close(symbol, time) ==
    PriceUnit * (1 + ((time + (IF symbol = "A" THEN 0 ELSE 1)) % 2))

\* A symbol's series: a row at each timestamp of its index, which may be any
\* set of timestamps.  The rows have a Close column only, so that High and
\* Low default to the close.
SeriesSet(symbol) ==
    {[t \in ix |-> [price |-> Close(symbol, t), high |-> Close(symbol, t),
                    low |-> Close(symbol, t)]] : ix \in SUBSET Times}

\* `time in df.index`
has_bar(d, symbol, time) == time \in DOMAIN d[symbol]

\* _price_at: the close of the symbol's bar at time, or None.
price_at(d, symbol, time) ==
    IF has_bar(d, symbol, time) THEN d[symbol][time].price ELSE None

\* Mutant of dates: the timestamps are taken latest first.
RECURSIVE descending(_)
descending(S) ==
    IF S = {} THEN <<>>
    ELSE LET m == CHOOSE x \in S : \A y \in S : x >= y
         IN  <<m>> \o descending(S \ {m})

dates_descending(d) == descending(UNION {DOMAIN d[s] : s \in Symbols})

\* sorted(...) of a set of timestamps.
RECURSIVE sorted(_)
sorted(S) ==
    IF S = {} THEN <<>>
    ELSE LET m == CHOOSE x \in S : \A y \in S : x <= y
         IN  <<m>> \o sorted(S \ {m})

\* self.dates: the sorted union of the indexes of all series.
dates(d) == sorted(UNION {DOMAIN d[s] : s \in Symbols})

\* Mutant of process_signals: every order is a BUY, whatever the signal.
process_signals_always_buy(B, symbol, signal_type) ==
    IF signal_type = "HOLD" THEN B
    ELSE LET id == Len(B.orders) + 1
         IN  [orders |-> Append(B.orders, NewOrder(symbol, "BUY", "MARKET", LotSize,
                                                   None, None, 0, None)),
              book |-> [B.book EXCEPT ![symbol] = Append(@, id)],
              history |-> Append(B.history, id)]

\* _process_signals for one signal, on the book B = [orders, book, history]:
\* a HOLD is skipped, any other signal becomes a MARKET order of LotSize.
\* The order's created_at is the wall clock, which is never read because the
\* order has no timeout; it is recorded as 0.
process_signals(B, symbol, signal_type) ==
    IF signal_type = "HOLD" THEN B
    ELSE LET id == Len(B.orders) + 1
         IN  [orders |-> Append(B.orders, NewOrder(symbol, signal_type, "MARKET", LotSize,
                                                   None, None, 0, None)),
              book |-> [B.book EXCEPT ![symbol] = Append(@, id)],
              history |-> Append(B.history, id)]

\* Mutant of strategy_signals: only the symbol visited first is asked for.
strategy_signals_first_only(B, syms, sigs) ==
    IF syms = <<>> \/ sigs[syms[1]] = "absent" THEN B
    ELSE process_signals(B, syms[1], sigs[syms[1]])

\* Step 2 of run for one strategy: for each symbol of required_syms, in the
\* order syms, the strategy's signal for that symbol, if it gave one.
RECURSIVE strategy_signals(_, _, _)
strategy_signals(B, syms, sigs) ==
    IF syms = <<>> THEN B
    ELSE strategy_signals(IF sigs[syms[1]] = "absent" THEN B
                          ELSE process_signals(B, syms[1], sigs[syms[1]]),
                          Tail(syms), sigs)

\* Step 2 of run: the strategies from the k-th on, in turn.  sigs[k] holds
\* the signals of strategy k, visits[k] the order in which its symbols are
\* visited.
RECURSIVE all_signals(_, _, _, _)
all_signals(B, k, sigs, visits) ==
    IF k > Len(sigs) THEN B
    ELSE all_signals(strategy_signals(B, visits[k], sigs[k]), k + 1, sigs, visits)

\* _execute_orders: for each symbol of self.symbols that has a bar at time,
\* one process_bar pass whose fills go to the ledger.  E = [orders, ledger,
\* fills], fills being those produced so far.
RECURSIVE execute_orders(_, _, _, _, _, _, _)
execute_orders(E, bk, default_cap, syms, d, time, comm) ==
    IF syms = <<>> THEN E
    ELSE IF ~has_bar(d, syms[1], time)
         THEN execute_orders(E, bk, default_cap, Tail(syms), d, time, comm)
         ELSE LET row == d[syms[1]][time]
                  r == process_bar(E.orders, bk, default_cap, syms[1], time,
                                   row.price, row.high, row.low, comm, None)
              IN  execute_orders([orders |-> r.orders,
                                  ledger |-> apply_fills(E.ledger, r.fills),
                                  fills |-> E.fills \o r.fills],
                                 bk, default_cap, Tail(syms), d, time, comm)

\* prices_now: `self._price_at(sym, dt) or 0.0` for every symbol.
prices_now(d, time) ==
    [s \in Symbols |-> IF has_bar(d, s, time) THEN d[s][time].price ELSE 0]

\* The strategies the engine is given: one strategy, for one symbol or with
\* no symbol of its own.
StrategyLists == {<<[symbol |-> p]>> : p \in Symbols \cup {NoSymbol}}

InitReplay ==
    /\ orders = <<>>
    /\ max_qty_per_fill = None
    /\ book = [s \in Symbols |-> <<>>]
    /\ history = <<>>
    /\ commission \in Commissions
    /\ cash = DefaultStartingCash
    /\ positions = EmptyMap
    /\ trade_history = <<>>
    /\ BrokerUnused
    /\ data \in {d \in [Symbols -> UNION {SeriesSet(s) : s \in Symbols}] :
                    \A s \in Symbols : d[s] \in SeriesSet(s)}
    /\ idx = 1
    /\ strategies \in StrategyLists
    /\ last_call = Idle

\* One iteration of the loop of run, for the timestamp dates[idx]; sigs[k]
\* is what strategy k's generate_signals returns for each of its symbols.
RunIteration(sigs, visits) ==
    LET dt == dates(data)[idx]
    IN  /\ last_call = Idle
        /\ idx <= Len(dates(data))
        /\ idx' = idx + 1
        /\ IF \A s \in Symbols : price_at(data, s, dt) = None
           THEN /\ UNCHANGED <<orders, book, history, ledgerVars, equity_curve>>
                /\ last_call' = [op |-> "run_skip", time |-> dt]
           ELSE \E B \in {all_signals([orders |-> orders, book |-> book,
                                        history |-> history], 1, sigs, visits)} :
                \E E \in {execute_orders([orders |-> B.orders, ledger |-> Ledger,
                                           fills |-> <<>>],
                                          B.book, max_qty_per_fill, SymbolList, data,
                                          dt, commission)} :
                    /\ orders' = E.orders
                    /\ book' = B.book
                    /\ history' = B.history
                    /\ cash' = E.ledger.cash
                    /\ positions' = E.ledger.positions
                    /\ trade_history' = E.ledger.trade_history
                    /\ equity_curve' =
                          Append(equity_curve,
                                 <<dt, total_equity(E.ledger, prices_now(data, dt))>>)
                    /\ last_call' = [op |-> "run", time |-> dt, signals |-> sigs,
                                     fills |-> E.fills]
        /\ UNCHANGED <<max_qty_per_fill, commission, latency, slippage_pct,
                       delay_queue, fills, last_prices, data, strategies>>

\* The signals the strategies may return, and the orders of visit.
SignalInputs ==
    {sg \in [1 .. Len(strategies) -> UNION {[S -> Signals] : S \in SUBSET Symbols}] :
        \A k \in 1 .. Len(strategies) : DOMAIN sg[k] = required_syms(strategies[k])}

VisitInputs ==
    {v \in [1 .. Len(strategies) -> UNION {Orderings(S) : S \in SUBSET Symbols}] :
        \A k \in 1 .. Len(strategies) : v[k] \in Orderings(required_syms(strategies[k]))}

NextReplay ==
    \/ /\ last_call = Idle
       /\ idx <= Len(dates(data))
       /\ \E sigs \in SignalInputs, visits \in VisitInputs :
             RunIteration(sigs, visits)
    \/ Return

SpecReplay == InitReplay /\ [][NextReplay]_vars

\* ====================================================================
\* Properties of the order book used on its own (specification Spec)
\* ====================================================================
OrderIds == 1 .. Len(orders)
Terminal == {"FILLED", "CANCELLED", "EXPIRED"}

\* The step is a process_bar call that visits order i (it is in the list of
\* the bar's symbol).
Visits(i) ==
    /\ last_call'.op = "process_bar"
    /\ \E k \in 1 .. Len(book[last_call'.symbol]) : book[last_call'.symbol][k] = i

\* Order o's timeout has elapsed at time t.
Elapsed(o, t) == o.timeout # None /\ t - o.created_at > o.timeout

\* Order i received a fill in this step.
GotFill(i) == Len(orders'[i].fills) = Len(orders[i].fills) + 1

\* C1: for every order in the book, the quantities of its fills sum to
\* filled_qty, filled_qty <= quantity, and it is FILLED iff filled_qty = quantity.
C1_FillConservation ==
    \A i \in OrderIds :
        InBook(book, i) =>
            /\ SumQty(orders[i].fills) = orders[i].filled_qty
            /\ orders[i].filled_qty <= orders[i].quantity
            /\ (orders[i].status = "FILLED" <=> orders[i].filled_qty = orders[i].quantity)

\* An order filled in two parts: a capped first fill, then the remainder.
C1_Witness ==
    \E i \in OrderIds :
        /\ InBook(book, i)
        /\ Len(orders[i].fills) = 2
        /\ orders[i].status = "FILLED"
        /\ orders[i].fills[1].quantity < orders[i].quantity

\* C2: a status changes only from PENDING or PARTIALLY_FILLED, to
\* PARTIALLY_FILLED, FILLED, CANCELLED or EXPIRED; a FILLED, CANCELLED or
\* EXPIRED order is never changed again; no order returns to PENDING.
C2_StatusTransitions ==
    [][\A i \in OrderIds :
          /\ orders[i].status \in Terminal => orders'[i] = orders[i]
          /\ orders'[i].status # orders[i].status =>
                /\ orders[i].status \in {"PENDING", "PARTIALLY_FILLED"}
                /\ orders'[i].status \in {"PARTIALLY_FILLED"} \cup Terminal
          /\ orders'[i].status = "PENDING" => orders[i].status = "PENDING"]_vars

\* A matching pass for its symbol has just visited an order cancelled after
\* a partial fill.
C2_Witness ==
    /\ last_call.op = "process_bar"
    /\ \E i \in OrderIds :
          /\ orders[i].status = "CANCELLED"
          /\ orders[i].symbol = last_call.symbol
          /\ orders[i].order_type = "MARKET"
          /\ Len(orders[i].fills) = 1

C8_TimeoutExpires ==
    [][\A i \in OrderIds :
          /\ (Visits(i) /\ is_open(orders[i]) /\ orders[i].timeout # None) =>
                IF last_call'.time - orders[i].created_at > orders[i].timeout
                THEN orders'[i] = [orders[i] EXCEPT !.status = "EXPIRED"]
                ELSE orders'[i].status # "EXPIRED"
          /\ orders[i].status = "EXPIRED" => orders'[i] = orders[i]]_vars

\* A MARKET order, eligible on every bar, expired in the pass just made.
C8_Witness ==
    /\ last_call.op = "process_bar"
    /\ last_call.fills = <<>>
    /\ \E i \in OrderIds :
          /\ orders[i].status = "EXPIRED"
          /\ orders[i].order_type = "MARKET"
          /\ orders[i].symbol = last_call.symbol
          /\ Elapsed(orders[i], last_call.time)

\* C9: a pass fills an open LIMIT BUY that has not timed out iff low <= limit,
\* at min(limit, close), and an open LIMIT SELL iff high >= limit, at
\* max(limit, close); otherwise the order is unchanged.
C9_LimitEligibility ==
    [][\A i \in OrderIds :
          (/\ Visits(i) /\ is_open(orders[i])
           /\ ~Elapsed(orders[i], last_call'.time)
           /\ orders[i].order_type = "LIMIT") =>
              LET o == orders[i]
                  c == last_call'
                  hit == IF o.side = "BUY" THEN c.low <= o.limit_price
                         ELSE c.high >= o.limit_price
                  px == IF o.side = "BUY" THEN Min(o.limit_price, c.price)
                        ELSE Max(o.limit_price, c.price)
              IN  IF hit THEN GotFill(i) /\ Last(orders'[i].fills).price = px
                  ELSE orders'[i] = o]_vars

\* A LIMIT BUY filled below its limit, at the bar's close.
C9_Witness ==
    /\ last_call.op = "process_bar"
    /\ \E k \in 1 .. Len(last_call.fills) :
          LET o == orders[last_call.owners[k]]
          IN  /\ o.order_type = "LIMIT" /\ o.side = "BUY"
              /\ last_call.low <= o.limit_price
              /\ last_call.fills[k].price = last_call.price
              /\ last_call.price < o.limit_price

\* C10: a pass fills an open STOP BUY that has not timed out iff high >= stop
\* and an open STOP SELL iff low <= stop, at the bar's close; otherwise the
\* order is unchanged.
C10_StopTrigger ==
    [][\A i \in OrderIds :
          (/\ Visits(i) /\ is_open(orders[i])
           /\ ~Elapsed(orders[i], last_call'.time)
           /\ orders[i].order_type = "STOP") =>
              LET o == orders[i]
                  c == last_call'
                  hit == IF o.side = "BUY" THEN c.high >= o.stop_price
                         ELSE c.low <= o.stop_price
              IN  IF hit THEN GotFill(i) /\ Last(orders'[i].fills).price = c.price
                  ELSE orders'[i] = o]_vars

\* A STOP BUY triggered by the bar's high and filled at a close below its stop.
C10_Witness ==
    /\ last_call.op = "process_bar"
    /\ \E k \in 1 .. Len(last_call.fills) :
          LET o == orders[last_call.owners[k]]
          IN  /\ o.order_type = "STOP" /\ o.side = "BUY"
              /\ last_call.high >= o.stop_price
              /\ last_call.price < o.stop_price
              /\ last_call.fills[k].price = last_call.price

\* C11: a pass that visits an open MARKET order that has not timed out fills
\* it at the bar's close, whatever the bar; with no cap in force the fill is
\* the order's whole remaining quantity and the order becomes FILLED, so an
\* order with no earlier fill ends with exactly one fill of its quantity.
C11_MarketFullFill ==
    [][\A i \in OrderIds :
          (/\ Visits(i) /\ is_open(orders[i])
           /\ ~Elapsed(orders[i], last_call'.time)
           /\ orders[i].order_type = "MARKET") =>
              /\ GotFill(i)
              /\ Last(orders'[i].fills).price = last_call'.price
              /\ \E k \in 1 .. Len(last_call'.fills) :
                    /\ last_call'.owners[k] = i
                    /\ last_call'.fills[k] = Last(orders'[i].fills)
              /\ last_call'.cap = None =>
                    /\ Last(orders'[i].fills).quantity = remaining(orders[i])
                    /\ orders'[i].status = "FILLED"
                    /\ orders[i].fills = <<>> =>
                          /\ Len(orders'[i].fills) = 1
                          /\ orders'[i].fills[1].quantity = orders[i].quantity]_vars

\* An uncapped pass filled a MARKET order of more than one unit in one fill,
\* at a close below the bar's high.
C11_Witness ==
    /\ last_call.op = "process_bar"
    /\ last_call.cap = None
    /\ last_call.price < last_call.high
    /\ Len(last_call.fills) = 1
    /\ LET o == orders[last_call.owners[1]]
       IN  /\ o.order_type = "MARKET"
           /\ o.status = "FILLED"
           /\ o.quantity > 1
           /\ o.fills = <<last_call.fills[1]>>
           /\ last_call.fills[1].quantity = o.quantity
           /\ last_call.fills[1].price = last_call.price

\* C15: cancel_order(id) returns true exactly when the book holds an open
\* order with that id, and that order becomes CANCELLED with filled_qty and
\* fills unchanged; for an unknown id or an order already FILLED, CANCELLED
\* or EXPIRED it returns false and no order changes.
C15_CancelOrder ==
    [][last_call'.op = "cancel_order" =>
          LET id == last_call'.id
              open == id \in OrderIds /\ InBook(book, id) /\ is_open(orders[id])
          IN  /\ last_call'.result = open
              /\ IF open
                 THEN orders' = [orders EXCEPT ![id].status = "CANCELLED"]
                 ELSE orders' = orders]_vars

\* cancel_order returned true for an order that already had a partial fill.
C15_Witness ==
    /\ last_call.op = "cancel_order"
    /\ last_call.result
    /\ orders[last_call.id].status = "CANCELLED"
    /\ Len(orders[last_call.id].fills) = 1
    /\ orders[last_call.id].filled_qty < orders[last_call.id].quantity

\* cancel_order returned false for an id no order has, and for a FILLED order.
C15_WitnessRefused ==
    /\ last_call.op = "cancel_order"
    /\ ~last_call.result
    /\ \/ last_call.id \notin OrderIds
       \/ orders[last_call.id].status = "FILLED"

\* ====================================================================
\* Properties of the ledger used on its own (specification SpecLedger)
\* ====================================================================
RECURSIVE SignedQty(_, _)
SignedQty(fs, symbol) ==
    IF fs = <<>> THEN 0
    ELSE (IF fs[1].symbol # symbol THEN 0
          ELSE IF fs[1].fill_type = "BUY" THEN fs[1].quantity
          ELSE 0 - fs[1].quantity) + SignedQty(Tail(fs), symbol)

PositionsAreSignedSums ==
    \A s \in Symbols :
        PositionOf(positions, s).quantity = SignedQty(trade_history, s)

\* C3: after any sequence of fills each symbol's position quantity is the sum
\* of +quantity over its BUY fills and -quantity over its SELL fills, and
\* each apply_fill changes cash by -(price*qty + commission) for a BUY and by
\* +(price*qty + commission) for a SELL.
C3_PositionAndCash ==
    [][last_call'.op = "apply_fill" =>
          LET f == last_call'.fill
              cost == f.price * f.quantity + f.commission
          IN  /\ cash' = IF f.fill_type = "BUY" THEN cash - cost ELSE cash + cost
              /\ PositionsAreSignedSums']_vars

\* A SELL with a commission has been applied after a BUY of the same symbol.
C3_Witness ==
    /\ last_call.op = "apply_fill"
    /\ last_call.fill.fill_type = "SELL"
    /\ last_call.fill.commission > 0
    /\ Len(trade_history) = 2
    /\ trade_history[1].fill_type = "BUY"
    /\ trade_history[1].symbol = last_call.fill.symbol
    /\ trade_history[1].quantity # last_call.fill.quantity

\* ====================================================================
\* Properties of the paper broker (specification SpecBroker), whose orders
\* are created at the moment they are submitted (created_at = now)
\* ====================================================================
\* The tick timestamps recorded so far never go back in time.
TicksInOrder(curve) ==
    \A k \in 1 .. Len(curve) - 1 : curve[k][1] <= curve[k + 1][1]

\* The step is a tick for order i's symbol.
TickFor(i) ==
    /\ last_call'.op = "on_price_tick"
    /\ last_call'.symbol = orders[i].symbol

\* C4: an order submitted at T gets no fill from a tick earlier than
\* T + latency, and a MARKET order still waiting (queued, or open in the book)
\* is filled by a tick for its symbol at a time >= T + latency.  Stated for
\* ticks whose timestamps never decrease.
C4_LatencyGate ==
    [][\A i \in OrderIds :
          (TickFor(i) /\ TicksInOrder(equity_curve')) =>
              LET ready == orders[i].created_at + latency
              IN  /\ last_call'.time < ready => orders'[i].fills = orders[i].fills
                  /\ (/\ last_call'.time >= ready
                      /\ orders[i].order_type = "MARKET"
                      /\ i \in pending_orders) => GotFill(i)]_vars

\* C5: when on_price_tick(symbol, time, ...) has returned, no entry of the
\* latency queue has a ready-timestamp <= time.
C5_QueueFlushed ==
    last_call.op = "on_price_tick" =>
        \A k \in 1 .. Len(delay_queue) : delay_queue[k][1] > last_call.time

\* The price the matching pass determines for order o on the tick c: the
\* close for MARKET and STOP orders, the better of limit and close for LIMIT.
EnginePrice(o, c) ==
    IF o.order_type = "LIMIT"
    THEN IF o.side = "BUY" THEN Min(o.limit_price, c.price) ELSE Max(o.limit_price, c.price)
    ELSE c.price

\* The price p after slippage s = slippage_pct / PriceUnit, for a fill of this side.
Slipped(p, side) ==
    IF side = "BUY" THEN (p * (PriceUnit + slippage_pct)) \div PriceUnit
    ELSE (p * (PriceUnit - slippage_pct)) \div PriceUnit

\* C12 as stated: every fill returned by on_price_tick has price
\* close*(1+s) if it is a BUY and close*(1-s) if it is a SELL, where close is
\* the price of the tick, for every order type.
C12_SlippageOnClose ==
    last_call.op = "on_price_tick" =>
        \A k \in 1 .. Len(last_call.fills) :
            last_call.fills[k].price
                = Slipped(last_call.price, last_call.fills[k].fill_type)

\* C12 amended: every fill returned by on_price_tick has price p*(1+s) if it
\* is a BUY and p*(1-s) if it is a SELL, where p is the price the matching
\* pass determined: the tick's close for a MARKET or STOP order,
\* min(limit, close) for a LIMIT BUY and max(limit, close) for a LIMIT SELL.
C12_SlippageOnEnginePrice ==
    last_call.op = "on_price_tick" =>
        \A k \in 1 .. Len(last_call.fills) :
            last_call.fills[k].price
                = Slipped(EnginePrice(orders[last_call.owners[k]], last_call),
                          last_call.fills[k].fill_type)

\* A tick returned a LIMIT SELL fill priced from the limit, above the close,
\* and a tick returned a MARKET BUY fill priced from the close.
C12_Witness ==
    /\ last_call.op = "on_price_tick"
    /\ slippage_pct > 0
    /\ \E k \in 1 .. Len(last_call.fills) :
          LET o == orders[last_call.owners[k]]
          IN  /\ o.order_type = "LIMIT" /\ o.side = "SELL"
              /\ o.limit_price > last_call.price
              /\ last_call.fills[k].price = Slipped(o.limit_price, "SELL")
    /\ \E i \in OrderIds :
          /\ orders[i].order_type = "MARKET"
          /\ orders[i].fills # <<>>

\* C13: a Fill is never changed after its creation: when on_price_tick has
\* returned, the Fill in the owning order's fills list still has the price
\* the matching pass determined (slippage went into a copy).
C13_FillKeepsEnginePrice ==
    last_call.op = "on_price_tick" =>
        \A k \in 1 .. Len(last_call.fills) :
            LET o == orders[last_call.owners[k]]
            IN  Last(o.fills).price = EnginePrice(o, last_call)

\* C14: cancel_order(id) returns true iff the order is waiting in the
\* latency queue or open in the book, and then the order is no longer among
\* pending_orders(); an order that is neither queued nor open in the book
\* (as after a successful cancel) never becomes pending again, never enters
\* the book if it was not in it, and receives no fill from any later step.
C14_BrokerCancel ==
    [][/\ last_call'.op = "broker_cancel_order" =>
            /\ last_call'.result = (last_call'.id \in pending_orders)
            /\ last_call'.result => last_call'.id \notin pending_orders'
       /\ \A i \in OrderIds :
            i \notin pending_orders =>
                /\ i \notin pending_orders'
                /\ orders'[i] = orders[i]
                /\ InBook(book', i) => InBook(book, i)]_vars

\* After a tick had filled another order, cancel_order returned true for an
\* order still waiting in the latency queue: it left the queue without ever
\* entering the book.
C14_Witness ==
    /\ last_call.op = "broker_cancel_order"
    /\ last_call.result
    /\ fills # <<>>
    /\ last_call.id \in OrderIds
    /\ ~InBook(book, last_call.id)
    /\ last_call.id \notin pending_orders
    /\ orders[last_call.id].status = "PENDING"

\* ====================================================================
\* Properties of order construction (specification SpecConstruct)
\* ====================================================================
\* C16: the Order constructor raises exactly when quantity <= 0, side is
\* HOLD, type is LIMIT with no limit price, or type is STOP with no stop
\* price, and then nothing enters the book; so every order in the book has
\* quantity > 0, side BUY or SELL, and the price its type requires.
C16_ConstructionRejects ==
    [][/\ last_call'.op = "Order" =>
            LET a == last_call'.args
            IN  /\ last_call'.raised =
                      (\/ a.quantity <= 0
                       \/ a.side = "HOLD"
                       \/ a.order_type = "LIMIT" /\ a.limit_price = None
                       \/ a.order_type = "STOP" /\ a.stop_price = None)
                /\ last_call'.raised => UNCHANGED <<orders, book, history>>
                /\ ~last_call'.raised =>
                      /\ Len(orders') = Len(orders) + 1
                      /\ InBook(book', Len(orders'))
       /\ \A i \in 1 .. Len(orders') :
            InBook(book', i) =>
                /\ orders'[i].quantity > 0
                /\ orders'[i].side \in {"BUY", "SELL"}
                /\ orders'[i].order_type = "LIMIT" => orders'[i].limit_price # None
                /\ orders'[i].order_type = "STOP" => orders'[i].stop_price # None]_vars

\* With one order already in the book, the constructor raised for arguments
\* whose only fault is the HOLD side.
C16_Witness ==
    /\ last_call.op = "Order"
    /\ last_call.raised
    /\ last_call.args.side = "HOLD"
    /\ last_call.args.quantity > 0
    /\ last_call.args.order_type = "LIMIT"
    /\ last_call.args.limit_price # None
    /\ Len(orders) = 1
    /\ InBook(book, 1)

\* ====================================================================
\* Properties of a book that holds several orders (specification SpecBook)
\* ====================================================================
\* The position of order i in the list ids.
PositionIn(ids, i) == CHOOSE k \in 1 .. Len(ids) : ids[k] = i

\* The ids of history that are for this symbol, in history's order.
RECURSIVE AddedFor(_, _, _)
AddedFor(hist, ords, symbol) ==
    IF hist = <<>> THEN <<>>
    ELSE (IF ords[hist[1]].symbol = symbol THEN <<hist[1]>> ELSE <<>>)
             \o AddedFor(Tail(hist), ords, symbol)

\* C17: each symbol's list holds its orders in the order they were added; a
\* process_bar pass gives at most one fill to each order, fills only orders
\* of its symbol's list, and returns exactly those fills, in the order of
\* the list.
C17_FifoFills ==
    [][/\ \A s \in Symbols : book'[s] = AddedFor(history', orders', s)
       /\ last_call'.op = "process_bar" =>
            LET ids == book[last_call'.symbol]
                own == last_call'.owners
            IN  /\ Len(last_call'.fills) = Len(own)
                /\ \A i \in OrderIds :
                      \/ orders'[i].fills = orders[i].fills
                      \/ /\ GotFill(i)
                         /\ \E k \in 1 .. Len(ids) : ids[k] = i
                         /\ \E k \in 1 .. Len(own) : own[k] = i
                /\ \A k \in 1 .. Len(own) :
                      /\ GotFill(own[k])
                      /\ last_call'.fills[k] = Last(orders'[own[k]].fills)
                /\ \A j, k \in 1 .. Len(own) :
                      j < k => PositionIn(ids, own[j]) < PositionIn(ids, own[k])]_vars

\* A pass returned two fills, of a LIMIT order added first and a MARKET
\* order added after it, in that order.
C17_Witness ==
    /\ last_call.op = "process_bar"
    /\ Len(last_call.fills) = 2
    /\ last_call.owners = book[last_call.symbol]
    /\ orders[last_call.owners[1]].order_type = "LIMIT"
    /\ orders[last_call.owners[2]].order_type = "MARKET"
    /\ last_call.fills[1].quantity # last_call.fills[2].quantity
    /\ last_call.fills[1] = Last(orders[last_call.owners[1]].fills)
    /\ last_call.fills[2] = Last(orders[last_call.owners[2]].fills)

\* ====================================================================
\* Properties of the replay (specification SpecReplay)
\* ====================================================================
\* The timestamps at which at least one symbol has a bar.
BarTimes == {t \in Times : \E s \in Symbols : t \in DOMAIN data[s]}

\* The timestamps of the equity samples recorded so far.
CurveTimes == {equity_curve[k][1] : k \in 1 .. Len(equity_curve)}

\* The ids of the orders created by the step.
NewOrders == (Len(orders) + 1) .. Len(orders')

\* C18: each iteration of the replay is for a timestamp at which some symbol
\* has a bar, later than every timestamp processed before and with no such
\* timestamp left out in between; its orders, its fills (all stamped with
\* that timestamp) and their ledger entries are complete when its single
\* equity sample is recorded, and nothing changes between iterations; when
\* every timestamp has been processed the samples are for exactly the
\* timestamps with a bar, in strictly increasing order.
C18_ReplayOrder ==
    [][/\ last_call'.op # "run" =>
            UNCHANGED <<orders, book, history, ledgerVars, equity_curve>>
       /\ last_call'.op = "run" =>
            LET dt == last_call'.time
            IN  /\ dt \in BarTimes
                /\ \A t \in CurveTimes : t < dt
                /\ \A t \in BarTimes : t < dt => t \in CurveTimes
                /\ Len(equity_curve') = Len(equity_curve) + 1
                /\ SubSeq(equity_curve', 1, Len(equity_curve)) = equity_curve
                /\ Last(equity_curve')[1] = dt
                /\ trade_history' = trade_history \o last_call'.fills
                /\ \A k \in 1 .. Len(last_call'.fills) : last_call'.fills[k].time = dt
                /\ \A i \in OrderIds :
                      \/ orders'[i] = orders[i]
                      \/ GotFill(i) /\ Last(orders'[i].fills).time = dt
       /\ \A k \in 1 .. Len(equity_curve') - 1 :
            equity_curve'[k][1] < equity_curve'[k + 1][1]
       /\ Len(equity_curve') = Cardinality(BarTimes) => CurveTimes' = BarTimes]_vars

\* A replay of two series with no timestamp in common has ended: an order
\* made at the first timestamp for the symbol without a bar there was filled
\* at the second.
C18_Witness ==
    /\ last_call.op = "run"
    /\ DOMAIN data["A"] = {0}
    /\ DOMAIN data["B"] = {1}
    /\ Len(equity_curve) = 2
    /\ equity_curve[1][1] = 0
    /\ equity_curve[2][1] = 1
    /\ Len(orders) = 1
    /\ orders[1].symbol = "B"
    /\ orders[1].status = "FILLED"
    /\ Len(trade_history) = 1
    /\ trade_history[1].time = 1

\* C19: in an iteration for timestamp t every BUY or SELL signal becomes one
\* MARKET order of the lot size 100 with the signal's side and symbol, a HOLD
\* signal and a missing signal make no order, and an order created for a
\* symbol that has a bar at t is FILLED in that iteration by one fill of
\* its whole quantity at that bar's close and stamped t; an order created
\* for a symbol without a bar at t stays PENDING.
C19_SignalsToOrders ==
    [][last_call'.op = "run" =>
          LET dt == last_call'.time
              sg == last_call'.signals
          IN  /\ \A s \in Symbols, side \in {"BUY", "SELL"} :
                    Cardinality({i \in NewOrders :
                                    orders'[i].symbol = s /\ orders'[i].side = side})
                        = Cardinality({k \in DOMAIN sg :
                                          s \in DOMAIN sg[k] /\ sg[k][s] = side})
              /\ \A i \in NewOrders :
                    LET o == orders'[i]
                    IN  /\ o.side \in {"BUY", "SELL"}
                        /\ o.order_type = "MARKET"
                        /\ o.quantity = 100
                        /\ InBook(book', i)
                        /\ IF dt \in DOMAIN data[o.symbol]
                           THEN /\ o.status = "FILLED"
                                /\ Len(o.fills) = 1
                                /\ o.fills[1].quantity = 100
                                /\ o.fills[1].price = data[o.symbol][dt].price
                                /\ o.fills[1].time = dt
                                /\ o.fills[1].fill_type = o.side
                           ELSE o.status = "PENDING" /\ o.fills = <<>>]_vars

\* At the second timestamp a strategy gave a SELL for one symbol and a HOLD
\* for the other: one order was made, and filled at that timestamp's close,
\* which is not the symbol's previous close.
C19_Witness ==
    /\ last_call.op = "run"
    /\ last_call.time = 1
    /\ DOMAIN data["A"] = {0, 1}
    /\ data["A"][0].price # data["A"][1].price
    /\ last_call.signals[1] = [s \in Symbols |-> IF s = "A" THEN "SELL" ELSE "HOLD"]
    /\ Len(orders) = 1
    /\ orders[1].side = "SELL"
    /\ orders[1].status = "FILLED"
    /\ orders[1].fills[1].price = data["A"][1].price
    /\ orders[1].fills[1].quantity = LotSize

\* The close of the symbol's latest bar at or before time, 0 when it has none.
LastKnownClose(d, symbol, time) ==
    LET seen == {u \in DOMAIN d[symbol] : u <= time}
    IN  IF seen = {} THEN 0
        ELSE d[symbol][CHOOSE u \in seen : \A v \in seen : v <= u].price

\* C20: the equity sample recorded at timestamp t is the cash plus each
\* symbol's position valued at that symbol's last known close at or before
\* t (0 only if the symbol has had no bar yet).
C20_EquityAtLastKnownClose ==
    last_call.op = "run" =>
        Last(equity_curve)[2]
            = total_equity(Ledger, [s \in Symbols |->
                                       LastKnownClose(data, s, last_call.time)])

\* C21: the replay is deterministic: from the same engine state (series,
\* cash, commission, book, ledger) and the same strategy outputs, whatever
\* order the symbols of a strategy are visited in, an iteration produces the
\* same fills, the same positions, cash and trade history, and the same
\* equity sample.
C21_ReplayDeterministic ==
    [][last_call'.op = "run" =>
          \A visits \in VisitInputs :
              LET B == all_signals([orders |-> orders, book |-> book,
                                    history |-> history], 1, last_call'.signals, visits)
                  E == execute_orders([orders |-> B.orders, ledger |-> Ledger,
                                       fills |-> <<>>],
                                      B.book, max_qty_per_fill, SymbolList, data,
                                      last_call'.time, commission)
              IN  /\ E.fills = last_call'.fills
                  /\ E.ledger = Ledger'
                  /\ Append(equity_curve,
                            <<last_call'.time,
                              total_equity(E.ledger, prices_now(data, last_call'.time))>>)
                        = equity_curve']_vars

\* A strategy asked about both symbols gave a signal for each; the order for
\* "B" was made first, and the fills came out for "A" first.
C21_Witness ==
    /\ last_call.op = "run"
    /\ Len(last_call.fills) = 2
    /\ last_call.fills[1].symbol = "A"
    /\ last_call.fills[2].symbol = "B"
    /\ Len(orders) = 2
    /\ orders[1].symbol = "B"
    /\ orders[2].symbol = "A"

\* ====================================================================
\* Further properties of the paper broker (specification SpecBroker)
\* ====================================================================
\* The value of the position in symbol s at the prices given, 0 without a
\* position or without a price.
Worth(pos, prices, s) ==
    IF s \in DOMAIN pos /\ s \in DOMAIN prices THEN pos[s].quantity * prices[s] ELSE 0

\* C22: each on_price_tick appends exactly one sample (time, equity), where
\* equity is the ledger's cash plus, per symbol, the position quantity times
\* the last known price, after the tick's fills; the tick's own price is
\* the last known price of its symbol; no other operation (submit, cancel,
\* reset) changes the equity curve.
C22_OneSamplePerTick ==
    [][IF last_call'.op = "on_price_tick"
       THEN /\ last_prices'[last_call'.symbol] = last_call'.price
            /\ \A s \in DOMAIN last_prices :
                  s # last_call'.symbol => last_prices'[s] = last_prices[s]
            /\ equity_curve' =
                  Append(equity_curve,
                         <<last_call'.time,
                           cash' + Worth(positions', last_prices', "A")
                                 + Worth(positions', last_prices', "B")>>)
       ELSE equity_curve' = equity_curve]_vars

\* A tick for one symbol recorded a second sample while a position was held
\* in the other symbol, at a last known price that is not the tick's price.
C22_Witness ==
    /\ last_call.op = "on_price_tick"
    /\ Len(equity_curve) = 2
    /\ \E s \in DOMAIN positions :
          /\ s # last_call.symbol
          /\ positions[s].quantity # 0
          /\ last_prices[s] # last_call.price
          /\ equity_curve[2][2] # cash

\* C23: the timestamps of the equity curve are increasing: each sample is
\* later than the one before it.
C23_CurveTimesIncrease ==
    \A k \in 1 .. Len(equity_curve) - 1 : equity_curve[k][1] < equity_curve[k + 1][1]

\* The orders waiting in the latency queue.
Queued == {delay_queue[k][2] : k \in 1 .. Len(delay_queue)}

\* C26: pending_orders() is exactly the orders in the latency queue plus the
\* PENDING and PARTIALLY_FILLED orders of the book; a queue entry is ready
\* at submission time plus latency, and a tick earlier than that leaves the
\* order in the queue, hence pending, and without a fill; no order is both
\* in the queue and in the book.
C26_PendingOrders ==
    [][/\ pending_orders' =
            Queued' \cup {i \in 1 .. Len(orders') :
                             /\ InBook(book', i)
                             /\ orders'[i].status \in {"PENDING", "PARTIALLY_FILLED"}}
       /\ \A i \in Queued' : ~InBook(book', i)
       /\ \A k \in 1 .. Len(delay_queue') :
            delay_queue'[k][1] = orders'[delay_queue'[k][2]].created_at + latency
       /\ \A i \in Queued :
            (/\ last_call'.op = "on_price_tick"
             /\ last_call'.time < orders[i].created_at + latency) =>
                /\ i \in Queued'
                /\ i \in pending_orders'
                /\ orders'[i] = orders[i]]_vars

\* A tick came before one order was ready and left it in the queue, while
\* another order sat open in the book.
C26_Witness ==
    /\ last_call.op = "on_price_tick"
    /\ \E i \in Queued :
          /\ last_call.time < orders[i].created_at + latency
          /\ orders[i].symbol = last_call.symbol
    /\ \E j \in pending_orders : InBook(book, j)

\* C24: after reset() the latency queue is empty, the fills list is empty,
\* pending_orders() is empty, the new book holds no orders and has the same
\* max_qty_per_fill as the old one, and the new ledger has no positions and
\* an empty trade history.
C24_ResetClears ==
    [][last_call'.op = "reset" =>
          /\ delay_queue' = <<>>
          /\ fills' = <<>>
          /\ pending_orders' = {}
          /\ \A s \in Symbols : book'[s] = <<>>
          /\ history' = <<>>
          /\ max_qty_per_fill' = max_qty_per_fill
          /\ positions' = EmptyMap
          /\ trade_history' = <<>>]_vars

\* A broker with a cap of 1 was reset after one order had been filled in
\* part and while another was still waiting.
C24_Witness ==
    /\ last_call.op = "reset"
    /\ max_qty_per_fill = 1
    /\ \E i \in 1 .. Len(orders) : orders[i].status = "PARTIALLY_FILLED"
    /\ \E j \in 1 .. Len(orders) : orders[j].status = "PENDING"

\* C25: reset() preserves the residual cash: the cash of the new ledger is
\* the cash of the old ledger at the moment of the reset.
C25_ResetKeepsCash ==
    [][last_call'.op = "reset" => cash' = cash]_vars

\* ====================================================================
\* Properties of the ledger (specifications SpecLedger and SpecQuery)
\* ====================================================================
\* C27: a fill that brings a position's quantity to zero, or carries it
\* across zero, resets the position's average price to 0.
C27_ZeroOrFlipResetsAverage ==
    [][last_call'.op = "apply_fill" =>
          LET s == last_call'.fill.symbol
              old_qty == PositionOf(positions, s).quantity
              new_qty == positions'[s].quantity
          IN  (new_qty = 0 \/ old_qty * new_qty < 0) =>
                  positions'[s].avg_price = ZeroPrice]_vars

\* C28: total_equity(prices) is the cash plus, per held symbol, the position
\* quantity times the supplied price, a symbol without a price counting 0;
\* computing it changes nothing in the ledger.
C28_TotalEquity ==
    [][last_call'.op = "total_equity" =>
          /\ last_call'.result =
                cash + Worth(positions, last_call'.prices, "A")
                     + Worth(positions, last_call'.prices, "B")
          /\ cash' = cash
          /\ positions' = positions
          /\ trade_history' = trade_history]_vars

\* The equity was asked for with both symbols held, one of them missing
\* from the prices.
C28_Witness ==
    /\ last_call.op = "total_equity"
    /\ DOMAIN positions = Symbols
    /\ positions["A"].quantity > 0
    /\ positions["B"].quantity < 0
    /\ DOMAIN last_call.prices = {"B"}
    /\ last_call.result # cash

\* x / d rounded toward zero, for d > 0.
TowardZero(x, d) == IF x >= 0 THEN x \div d ELSE 0 - ((0 - x) \div d)

\* C29: rebalance_to_target_weights returns, for each target symbol, the
\* share delta (equity * weight - current_qty * price) / price rounded
\* toward zero, for negative as for positive differences, omits the symbols
\* whose delta is 0, and leaves cash, positions and trade history unchanged.
C29_RebalanceTowardZero ==
    [][last_call'.op = "rebalance_to_target_weights" =>
          LET prices == last_call'.prices
              target_weights == last_call'.target_weights
              result == last_call'.result
              equity == cash + Worth(positions, prices, "A") + Worth(positions, prices, "B")
              delta(sym) ==
                  TowardZero(equity * target_weights[sym].num
                                - PositionOf(positions, sym).quantity * prices[sym]
                                     * target_weights[sym].den,
                             target_weights[sym].den * prices[sym])
          IN  /\ DOMAIN result \subseteq DOMAIN target_weights
              /\ \A sym \in DOMAIN target_weights \cap DOMAIN prices :
                    IF delta(sym) = 0 THEN sym \notin DOMAIN result
                    ELSE sym \in DOMAIN result /\ result[sym] = delta(sym)
              /\ cash' = cash
              /\ positions' = positions
              /\ trade_history' = trade_history]_vars

\* C30: apply_fill takes every fill, whatever the cash it leaves: the fill
\* is recorded unaltered and paid for in full, also when the cash becomes
\* negative; margin_used is max(-cash, 0) in every state of the ledger.
C30_NoCashCheck ==
    [][/\ (last_call = Idle /\ Len(trade_history) < MaxFills) =>
             \A fill \in QueryFills : ENABLED ApplyFill(fill)
       /\ last_call'.op = "apply_fill" =>
             LET fill == last_call'.fill
                 direction == IF fill.fill_type = "BUY" THEN 1 ELSE 0 - 1
             IN  /\ trade_history' = Append(trade_history, fill)
                 /\ positions'[fill.symbol].quantity =
                       PositionOf(positions, fill.symbol).quantity
                          + direction * fill.quantity
                 /\ cash' = cash - direction * (fill.price * fill.quantity
                                                  + fill.commission)
       /\ last_call'.op = "margin_used" =>
             /\ last_call'.result = (IF cash < 0 THEN 0 - cash ELSE 0)
             /\ cash' = cash
       /\ margin_used(Ledger') = (IF cash' < 0 THEN 0 - cash' ELSE 0)]_vars

\* The margin was asked for after fills had taken the cash below zero.
C30_Witness ==
    /\ last_call.op = "margin_used"
    /\ last_call.result > 0
    /\ cash < 0
    /\ Len(trade_history) = 2

\* C31: saving a ledger and loading the snapshot gives a ledger with the
\* same cash and, for every symbol, the same position quantity and average
\* price; the loaded ledger's trade history is empty.
C31_SaveLoad ==
    [][last_call'.op = "load" =>
          LET loaded == last_call'.result
          IN  /\ loaded.cash = cash
              /\ DOMAIN loaded.positions = DOMAIN positions
              /\ \A sym \in DOMAIN positions :
                    /\ loaded.positions[sym].quantity = positions[sym].quantity
                    /\ loaded.positions[sym].avg_price = positions[sym].avg_price
              /\ loaded.trade_history = <<>>
              /\ last_call'.doc.trades = trade_history]_vars

\* A ledger in debt, long one symbol and short the other after two fills,
\* was saved and loaded.
C31_Witness ==
    /\ last_call.op = "load"
    /\ cash < 0
    /\ Len(trade_history) = 2
    /\ last_call.result.cash = cash
    /\ \E s, t \in DOMAIN last_call.result.positions :
          /\ last_call.result.positions[s].quantity > 0
          /\ last_call.result.positions[t].quantity < 0

\* ====================================================================
\* Cancellation and the fills list of the paper broker (SpecBroker)
\* ====================================================================
\* C33: after the broker's cancel_order(id) has returned true, the order
\* with that id has the status CANCELLED, whether it was still in the
\* latency queue or already in the book.
C33_CancelledAfterCancel ==
    [][(last_call'.op = "broker_cancel_order" /\ last_call'.result) =>
          orders'[last_call'.id].status = "CANCELLED"]_vars

\* C38: the broker's fills list equals the ledger's trade history, fill by
\* fill; a tick extends it by the list the tick returns, reset empties it,
\* and nothing else changes it.
C38_FillsAreTradeHistory ==
    [][/\ fills' = trade_history'
       /\ fills' = (IF last_call'.op = "on_price_tick" THEN fills \o last_call'.fills
                    ELSE IF last_call'.op = "reset" THEN <<>>
                    ELSE fills)]_vars

\* A tick returned a fill after a reset had dropped an earlier one: the
\* list holds the new fill only, although two orders have been filled.
C38_Witness ==
    /\ last_call.op = "on_price_tick"
    /\ Len(last_call.fills) = 1
    /\ fills = last_call.fills
    /\ trade_history = fills
    /\ Len(orders) = 2
    /\ \A i \in 1 .. 2 : orders[i].status = "FILLED"

\* ====================================================================
\* Further properties of the order book (Spec) and the ledger (SpecLedger)
\* ====================================================================
\* C35: a STOP order that has received a first fill limited by the cap is
\* treated as a market order from then on: the next bar for its symbol
\* fills its remaining quantity, whether or not that bar satisfies the stop
\* condition (the order's timeout not having elapsed).
C35_TriggeredStopIsMarket ==
    [][\A i \in OrderIds :
          (/\ Visits(i)
           /\ orders[i].order_type = "STOP"
           /\ orders[i].status = "PARTIALLY_FILLED"
           /\ ~Elapsed(orders[i], last_call'.time)) =>
              /\ GotFill(i)
              /\ Last(orders'[i].fills).quantity = remaining(orders[i])
              /\ Last(orders'[i].fills).price = last_call'.price
              /\ orders'[i].status = "FILLED"]_vars

\* C36: commission is charged on every fill, BUY or SELL: the total equity
\* marked at the fill price is lower after apply_fill than before by exactly
\* the fill's commission.
C36_CommissionCharged ==
    [][last_call'.op = "apply_fill" =>
          LET fill == last_call'.fill
              mark == [s \in {fill.symbol} |-> fill.price]
          IN  cash' + Worth(positions', mark, fill.symbol)
                 = cash + Worth(positions, mark, fill.symbol) - fill.commission]_vars

\* C40: on a bar with low <= close <= high every fill of the matching pass
\* has a price within [low, high]; a LIMIT BUY never fills above its limit
\* and a LIMIT SELL never below its limit.
C40_FillPriceWithinBar ==
    [][last_call'.op = "process_bar" =>
          \A k \in 1 .. Len(last_call'.fills) :
             LET fill == last_call'.fills[k]
                 o == orders[last_call'.owners[k]]
             IN  /\ last_call'.low <= fill.price
                 /\ fill.price <= last_call'.high
                 /\ (o.order_type = "LIMIT" /\ o.side = "BUY") =>
                        fill.price <= o.limit_price
                 /\ (o.order_type = "LIMIT" /\ o.side = "SELL") =>
                        fill.price >= o.limit_price]_vars

\* A LIMIT order was filled at a close better than its limit, on a bar whose
\* low is below its high.
C40_Witness ==
    /\ last_call.op = "process_bar"
    /\ Len(last_call.fills) = 1
    /\ orders[1].order_type = "LIMIT"
    /\ last_call.fills[1].price # orders[1].limit_price
    /\ last_call.fills[1].price = last_call.price
    /\ last_call.low < last_call.high

\* ====================================================================
\* The book and the ledger of one broker (specification SpecDesk)
\* ====================================================================
\* The filled quantity of the orders ids, BUY orders counted positive and
\* SELL orders negative.
RECURSIVE BookFilled(_, _)
BookFilled(ords, ids) ==
    IF ids = <<>> THEN 0
    ELSE (IF ords[ids[1]].side = "BUY" THEN ords[ids[1]].filled_qty
          ELSE 0 - ords[ids[1]].filled_qty) + BookFilled(ords, Tail(ids))

\* C32: for every symbol the ledger's position quantity is the sum, over the
\* symbol's orders in the book, of filled_qty counted positive for BUY and
\* negative for SELL orders, since construction or the last reset.
C32_BookLedgerConservation ==
    \A s \in Symbols : PositionOf(positions, s).quantity = BookFilled(orders, book[s])

\* After a reset that dropped a filled order, a SELL order has been filled
\* in part under the cap and the ledger is short that part.
C32_Witness ==
    /\ last_call.op = "on_price_tick"
    /\ \E i \in 1 .. Len(orders) : orders[i].filled_qty > 0 /\ ~InBook(book, i)
    /\ \E j \in 1 .. Len(orders) :
          /\ InBook(book, j)
          /\ orders[j].side = "SELL"
          /\ orders[j].status = "PARTIALLY_FILLED"
          /\ positions[orders[j].symbol].quantity = 0 - orders[j].filled_qty

\* ====================================================================
\* Timeouts in the paper broker (specification SpecTimeout), whose orders
\* are created at the moment they are submitted (created_at = now)
\* ====================================================================
\* C34: the timeout runs from the creation time: an order created and
\* submitted at T with a timeout shorter than the broker's latency L is never
\* filled, and the first tick for its symbol with time >= T + L that finds
\* it still waiting leaves it EXPIRED.  Stated for ticks whose timestamps
\* never decrease.
C34_TimeoutFromCreation ==
    [][\A i \in OrderIds :
          (/\ orders[i].timeout # None
           /\ latency > orders[i].timeout
           /\ TicksInOrder(equity_curve')) =>
              /\ orders'[i].fills = <<>>
              /\ (/\ TickFor(i)
                  /\ last_call'.time >= orders[i].created_at + latency
                  /\ i \in pending_orders) => orders'[i].status = "EXPIRED"]_vars

\* C37: a tick for one symbol never changes the status, filled_qty or fills
\* of an order for another symbol, nor the ledger's position in another
\* symbol; an order of the book that is still open, its timeout elapsed or
\* not, is cancelled by cancel_order.
C37_OtherSymbolsUntouched ==
    [][/\ last_call'.op = "on_price_tick" =>
            /\ \A i \in OrderIds :
                  orders[i].symbol # last_call'.symbol => orders'[i] = orders[i]
            /\ \A s \in Symbols \ {last_call'.symbol} :
                  PositionOf(positions', s) = PositionOf(positions, s)
       /\ \A i \in OrderIds :
            (/\ last_call'.op = "broker_cancel_order"
             /\ last_call'.id = i
             /\ InBook(book, i)
             /\ is_open(orders[i])) =>
                /\ last_call'.result
                /\ orders'[i].status = "CANCELLED"]_vars

\* A tick for the other symbol, later than the timeout of an order in the
\* book, left that order PENDING.
C37_Witness ==
    /\ last_call.op = "on_price_tick"
    /\ \E i \in 1 .. Len(orders) :
          /\ InBook(book, i)
          /\ orders[i].symbol # last_call.symbol
          /\ Elapsed(orders[i], last_call.time)
          /\ orders[i].status = "PENDING"

\* C39: a MARKET order without a timeout that is submitted and not cancelled
\* is FILLED in the end, given ticks for its symbol whose times reach its
\* ready-timestamp and no reset: every such tick that finds the order
\* waiting, in the queue or open in the book, gives it a fill, and a tick
\* for its symbol that finds it in the book with a first fill leaves it
\* FILLED, so that two ticks suffice once it is in the book.
C39_MarketOrderGetsFilled ==
    [][\A i \in OrderIds :
          (/\ orders[i].order_type = "MARKET"
           /\ orders[i].timeout = None
           /\ TickFor(i)
           /\ last_call'.time >= orders[i].created_at + latency
           /\ i \in pending_orders) =>
              /\ GotFill(i)
              /\ (orders[i].filled_qty > 0 \/ max_qty_per_fill = None) =>
                    orders'[i].status = "FILLED"]_vars

====
